---- MODULE Spec2Model ----
(***************************************************************************)
(* Model of CodePipelineConstruct                                          *)
(* (src/infrastructure/lib/codePipelineConstruct.ts).                      *)
(*                                                                         *)
(* The constructor is modelled statement group by statement group: every   *)
(* action below is one consecutive block of the constructor, and pc is the *)
(* position of the constructor between two blocks.  Strings are sequences  *)
(* of tokens, so that a template literal is a real concatenation and       *)
(* "contains" is a real sub-sequence test.                                 *)
(***************************************************************************)
EXTENDS Integers, Sequences, FiniteSets, TLC

VARIABLES
    props,           \* the CodePipelineConstructProps handed to the constructor
    env,             \* cdk.Stack.of(this): region and account
    pc,              \* position inside the constructor / of the caller
    buildNo,         \* how many times the constructor has been entered
    pipeline,        \* this.pipeline: the ordered list of stages
    children,        \* constructs created with `this` as their scope, in order
    artifacts,       \* codepipeline.Artifact objects created (their names)
    sourceCode,      \* the local `sourceCode`
    mlPipelineRole,  \* statements of the local `mlPipelineRole`
    deployRole,      \* statements of the local `deployRole`
    approval,        \* the local `manualApprovalAction`
    thrown,          \* the exception that left the constructor, if any
    built,           \* what each finished constructor call left behind
    exec             \* one execution of the built pipeline

vars == <<props, env, pc, buildNo, pipeline, children, artifacts, sourceCode,
          mlPipelineRole, deployRole, approval, thrown, built, exec>>

-----------------------------------------------------------------------------
(* Bounds *)

NumBuilds == 2

-----------------------------------------------------------------------------
(* Strings as token sequences *)

S(t) == <<t>>

\* the JavaScript value undefined (an absent property)
Undefined == <<"<undefined>">>

\* String(v) as a template literal `${v}` computes it
ToStr(v) == IF v = Undefined THEN S("undefined") ELSE v

\* s.includes(sub)
Contains(s, sub) ==
    \E i \in 0..(Len(s) - Len(sub)) : SubSeq(s, i + 1, i + Len(sub)) = sub

\* JavaScript truthiness of a string-or-undefined value
Truthy(v) == v # Undefined /\ v # <<>>

-----------------------------------------------------------------------------
(* Inputs *)

RepoTypes == {"git", "codecommit", "svn"}

ProjectNames == {S("demo"), S("*"), <<"ml", "-", "ops">>, Undefined}

Branches == {Undefined, <<>>, S("dev")}

ArtifactBuckets == {S("artifacts"), Undefined}

ExecutionRoles == {S("exec-role"), Undefined}

Regions == {S("us-east-1"), S("eu-west-1")}

GitConfigs ==
    { [githubConnectionArn |-> S("conn1"), githubRepoOwner |-> S("acme"),
       githubRepoName |-> S("ml-repo"), githubRepoBranch |-> b] : b \in Branches }

NoGit == [githubConnectionArn |-> Undefined, githubRepoOwner |-> Undefined,
          githubRepoName |-> Undefined, githubRepoBranch |-> Undefined]

PropsSet ==
    { q \in [dataManifestBucket : {S("manifests")},
             sageMakerArtifactBucket : ArtifactBuckets,
             sageMakerExecutionRole : ExecutionRoles,
             projectName : ProjectNames,
             repoType : RepoTypes,
             git : GitConfigs \cup {NoGit}] :
         (q.repoType = "git") <=> (q.git # NoGit) }

EnvSet == [region : Regions, account : {S("111122223333")}]

\* the props the declared type admits
ValidProps(p) ==
    /\ p.repoType \in {"git", "codecommit"}
    /\ (p.repoType = "git") <=> (p.git # NoGit)
    /\ p.sageMakerArtifactBucket # Undefined
    /\ p.sageMakerExecutionRole # Undefined
    /\ p.projectName # Undefined

\* s3.Bucket attributes
bucketArn(b) == S("arn:aws:s3:::") \o b
bucketName(b) == b

\* iam.Role attribute
roleArn(r, e) == <<"arn:aws:iam::">> \o e.account \o S(":role/") \o r

-----------------------------------------------------------------------------
(* Values of locals that are not assigned yet *)

NoAction == [actionName |-> "<none>", kind |-> "<none>", input |-> <<>>,
             extraInputs |-> <<>>, outputs |-> <<>>, runOrder |-> <<>>,
             config |-> <<>>]

NoRole == <<>>

NoExec == [status |-> "idle", stage |-> 0, actions |-> <<>>]

-----------------------------------------------------------------------------
(* The objects the constructor creates *)

\* new codepipeline.Pipeline(this, 'MLOpsPipeline', ...): no stage yet
NewPipeline_shared == pipeline

NewPipeline == <<>>

\* new iam.Role(this, ..., {assumedBy: codebuild}): no statement yet
NewRole == <<>>

\* pipeline.addStage({stageName, actions})
addStage_front(p, name, acts) == <<[stageName |-> name, actions |-> acts]>> \o p

addStage(p, name, acts) == Append(p, [stageName |-> name, actions |-> acts])

\* role.addToPolicy(statement)
addToPolicy(role, st) == Append(role, st)

Construct(id, type, cfg) == [id |-> id, type |-> type, cfg |-> cfg]

sourceCodeOutput == "SourceCodeOutput"
sourceDataOutput == "SourceDataOutput"
buildOutput == "BuildOutput"
pipelineOutput == "PipelineOutput"

\* props.git.githubRepoBranch || 'main'
GitBranch_ignored(g) == S("main")

GitBranch(g) == IF Truthy(g.githubRepoBranch) THEN g.githubRepoBranch ELSE S("main")

\* new codepipeline_actions.CodeStarConnectionsSourceAction({...})
GitSourceAction(p) ==
    [actionName |-> "SourceCode", kind |-> "CodeStarConnectionsSource",
     input |-> <<>>, extraInputs |-> <<>>, outputs |-> <<sourceCodeOutput>>,
     runOrder |-> <<>>,
     config |-> [owner |-> p.git.githubRepoOwner,
                 repo |-> p.git.githubRepoName,
                 branch |-> GitBranch(p.git),
                 connectionArn |-> p.git.githubConnectionArn]]

\* new codecommit.Repository(this, 'SourceRepository', {...})
sourceRepo == Construct("SourceRepository", "codecommit.Repository",
                        [repositoryName |-> S("MLOpsE2EDemo")])

\* new codepipeline_actions.CodeCommitSourceAction({...})
CodeCommitSourceAction_master(repo) ==
    [actionName |-> "SourceCode", kind |-> "CodeCommitSource",
     input |-> <<>>, extraInputs |-> <<>>, outputs |-> <<sourceCodeOutput>>,
     runOrder |-> <<>>,
     config |-> [repository |-> repo.id, branch |-> S("master")]]

CodeCommitSourceAction(repo) ==
    [actionName |-> "SourceCode", kind |-> "CodeCommitSource",
     input |-> <<>>, extraInputs |-> <<>>, outputs |-> <<sourceCodeOutput>>,
     runOrder |-> <<>>,
     config |-> [repository |-> repo.id, branch |-> S("main")]]

\* new codepipeline_actions.S3SourceAction({...})
sourceData(p) ==
    [actionName |-> "SourceData", kind |-> "S3Source",
     input |-> <<>>, extraInputs |-> <<>>, outputs |-> <<sourceDataOutput>>,
     runOrder |-> <<>>,
     config |-> [bucket |-> p.dataManifestBucket,
                 bucketKey |-> S("manifest.json.zip")]]

\* new codebuild.PipelineProject(this, 'CIBuild', {...})
buildProject ==
    Construct("CIBuild", "codebuild.PipelineProject",
              [buildSpec |-> S("./buildspecs/build.yml"), role |-> "<default>",
               privileged |-> TRUE])

\* new codepipeline_actions.CodeBuildAction({actionName: 'CIBuild', ...})
build_forward ==
    [actionName |-> "CIBuild", kind |-> "CodeBuild",
     input |-> <<sourceCodeOutput>>, extraInputs |-> <<pipelineOutput>>,
     outputs |-> <<buildOutput>>, runOrder |-> <<>>,
     config |-> [project |-> buildProject.id, environmentVariables |-> <<>>]]

build ==
    [actionName |-> "CIBuild", kind |-> "CodeBuild",
     input |-> <<sourceCodeOutput>>, extraInputs |-> <<sourceDataOutput>>,
     outputs |-> <<buildOutput>>, runOrder |-> <<>>,
     config |-> [project |-> buildProject.id, environmentVariables |-> <<>>]]

\* the statement of lines 128-134
ArtifactBucketStatement(p) ==
    [effect |-> "Allow",
     actions |-> {"s3:CreateBucket", "s3:GetObject", "s3:PutObject", "s3:ListBucket"},
     resources |-> <<bucketArn(p.sageMakerArtifactBucket),
                     bucketArn(p.sageMakerArtifactBucket) \o S("/*")>>,
     conditions |-> <<>>]

PipelineLifecycleActions ==
    {"sagemaker:CreatePipeline", "sagemaker:ListTags", "sagemaker:AddTags",
     "sagemaker:UpdatePipeline", "sagemaker:DescribePipeline",
     "sagemaker:StartPipelineExecution", "sagemaker:DescribePipelineExecution",
     "sagemaker:ListPipelineExecutionSteps"}

\* the statement of lines 136-158
SageMakerPipelineStatement_wild(p, e) ==
    [effect |-> "Allow",
     actions |-> PipelineLifecycleActions,
     resources |-> <<S("arn:aws:sagemaker:") \o e.region \o S(":") \o e.account
                        \o S(":pipeline/") \o S("*"),
                     S("*")>>,
     conditions |-> <<>>]

SageMakerPipelineStatement(p, e) ==
    [effect |-> "Allow",
     actions |-> PipelineLifecycleActions,
     resources |-> <<S("arn:aws:sagemaker:") \o e.region \o S(":") \o e.account
                        \o S(":pipeline/") \o ToStr(p.projectName),
                     S("arn:aws:sagemaker:") \o e.region \o S(":") \o e.account
                        \o S(":pipeline/") \o ToStr(p.projectName) \o S("/*")>>,
     conditions |-> <<>>]

\* the statement of lines 160-166
PassRoleStatement(p, e) ==
    [effect |-> "Allow",
     actions |-> {"iam:PassRole"},
     resources |-> <<roleArn(p.sageMakerExecutionRole, e)>>,
     conditions |-> <<>>]

\* new codebuild.PipelineProject(this, 'MLPipeline', {...})
mlPipelineProject ==
    Construct("MLPipeline", "codebuild.PipelineProject",
              [buildSpec |-> S("./buildspecs/pipeline.yml"),
               role |-> "MLPipelineRole", privileged |-> FALSE])

\* new codepipeline_actions.CodeBuildAction({actionName: 'MLPipeline', ...})
mlPipelie(p, e) ==
    [actionName |-> "MLPipeline", kind |-> "CodeBuild",
     input |-> <<buildOutput>>, extraInputs |-> <<>>,
     outputs |-> <<pipelineOutput>>, runOrder |-> <<>>,
     config |-> [project |-> mlPipelineProject.id,
                 environmentVariables |->
                   <<[name |-> "SAGEMAKER_ARTIFACT_BUCKET",
                      value |-> bucketName(p.sageMakerArtifactBucket)],
                     [name |-> "SAGEMAKER_PIPELINE_ROLE_ARN",
                      value |-> roleArn(p.sageMakerExecutionRole, e)],
                     [name |-> "SAGEMAKER_PROJECT_NAME",
                      value |-> p.projectName]>>]]

\* new sns.Topic(this, 'ModelDeploymentApprovalTopic', {...})
deploymentApprovalTopic ==
    Construct("ModelDeploymentApprovalTopic", "sns.Topic",
              [topicName |-> S("ModelDeploymentApprovalTopic")])

\* new codepipeline_actions.ManualApprovalAction({...})
manualApprovalAction(p, e) ==
    [actionName |-> "Approval", kind |-> "ManualApproval",
     input |-> <<>>, extraInputs |-> <<>>, outputs |-> <<>>,
     runOrder |-> <<1>>,
     config |-> [notificationTopic |-> deploymentApprovalTopic.id,
                 additionalInformation |->
                     S("A new version of the model for project ")
                       \o ToStr(p.projectName) \o S(" is waiting for approval"),
                 externalEntityLink |->
                     S("https://") \o e.region
                       \o S(".console.aws.amazon.com/sagemaker/home?region=")
                       \o e.region \o S("#/studio/")]]

CalledVia ==
    <<[operator |-> "ForAnyValue:StringEquals", key |-> "aws:CalledVia",
       values |-> {"cloudformation.amazonaws.com"}]>>

\* the statement of lines 221-237
LambdaStatement(p, e) ==
    [effect |-> "Allow",
     actions |-> {"lambda:*Function*"},
     resources |-> <<S("arn:aws:lambda:") \o e.region \o S(":") \o e.account
                        \o S(":function:") \o S("Deployment-")
                        \o ToStr(p.projectName) \o S("*")>>,
     conditions |-> CalledVia]

\* the statement of lines 239-255
EndpointStatement ==
    [effect |-> "Allow",
     actions |-> {"sagemaker:*Endpoint*"},
     resources |-> <<S("*")>>,
     conditions |-> CalledVia]

\* the statement of lines 257-275
IamStatement_unconditional(p, e) ==
    [effect |-> "Allow",
     actions |-> {"iam:*Role", "iam:*Policy*", "iam:*RolePolicy"},
     resources |-> <<S("arn:aws:iam::") \o e.account \o S(":role/")
                        \o S("Deployment-") \o ToStr(p.projectName) \o S("-*")>>,
     conditions |-> <<>>]

IamStatement(p, e) ==
    [effect |-> "Allow",
     actions |-> {"iam:*Role", "iam:*Policy*", "iam:*RolePolicy"},
     resources |-> <<S("arn:aws:iam::") \o e.account \o S(":role/")
                        \o S("Deployment-") \o ToStr(p.projectName) \o S("-*")>>,
     conditions |-> CalledVia]

\* the statement of lines 277-293
CloudFormationStatement(p, e) ==
    [effect |-> "Allow",
     actions |-> {"cloudformation:DescribeStacks", "cloudformation:CreateChangeSet",
                  "cloudformation:DescribeChangeSet", "cloudformation:ExecuteChangeSet",
                  "cloudformation:DescribeStackEvents", "cloudformation:DeleteChangeSet",
                  "cloudformation:GetTemplate"},
     resources |-> <<S("arn:aws:cloudformation:") \o e.region \o S(":") \o e.account
                        \o S(":stack/CDKToolkit/*"),
                     S("arn:aws:cloudformation:") \o e.region \o S(":") \o e.account
                        \o S(":stack/") \o S("Deployment-")
                        \o ToStr(p.projectName) \o S("/*")>>,
     conditions |-> <<>>]

\* the statement of lines 295-304
StagingBucketStatement ==
    [effect |-> "Allow",
     actions |-> {"s3:*Object", "s3:ListBucket", "s3:GetBucketLocation"},
     resources |-> <<S("arn:aws:s3:::cdktoolkit-stagingbucket-*")>>,
     conditions |-> <<>>]

\* new codebuild.PipelineProject(this, 'DeployProject', {...})
deployProject ==
    Construct("DeployProject", "codebuild.PipelineProject",
              [buildSpec |-> S("./buildspecs/deploy.yml"), role |-> "DeployRole",
               privileged |-> TRUE])

\* new codepipeline_actions.CodeBuildAction({actionName: 'Deploy', ...})
deploy_sameOrder ==
    [actionName |-> "Deploy", kind |-> "CodeBuild",
     input |-> <<buildOutput>>, extraInputs |-> <<pipelineOutput>>,
     outputs |-> <<>>, runOrder |-> <<1>>,
     config |-> [project |-> deployProject.id, environmentVariables |-> <<>>]]

deploy ==
    [actionName |-> "Deploy", kind |-> "CodeBuild",
     input |-> <<buildOutput>>, extraInputs |-> <<pipelineOutput>>,
     outputs |-> <<>>, runOrder |-> <<2>>,
     config |-> [project |-> deployProject.id, environmentVariables |-> <<>>]]

-----------------------------------------------------------------------------
(* The constructor *)

Init ==
    /\ props \in PropsSet
    /\ env \in EnvSet
    /\ pc = "enter"
    /\ buildNo = 1
    /\ pipeline = <<>>
    /\ children = <<>>
    /\ artifacts = <<>>
    /\ sourceCode = NoAction
    /\ mlPipelineRole = NoRole
    /\ deployRole = NoRole
    /\ approval = NoAction
    /\ thrown = "none"
    /\ built = <<>>
    /\ exec = NoExec

\* an exception leaves the constructor
Throw(err) ==
    /\ pc' = "thrown"
    /\ thrown' = err

\* lines 52-64: super(), the pipeline, the four artifacts, `let sourceCode`
Enter ==
    /\ pc = "enter"
    /\ pipeline' = NewPipeline
    /\ children' = <<Construct("MLOpsPipeline", "codepipeline.Pipeline",
                               [restartExecutionOnUpdate |-> TRUE])>>
    /\ artifacts' = <<sourceCodeOutput, sourceDataOutput, buildOutput, pipelineOutput>>
    /\ sourceCode' = NoAction
    /\ approval' = NoAction
    /\ mlPipelineRole' = NoRole
    /\ deployRole' = NoRole
    /\ thrown' = "none"
    /\ pc' = "source"
    /\ UNCHANGED <<props, env, buildNo, built, exec>>

\* lines 67-75: the branch props.repoType === 'git'
GitSource ==
    /\ pc = "source"
    /\ props.repoType = "git"
    /\ IF props.git = NoGit
         THEN /\ Throw("TypeError")
              /\ UNCHANGED sourceCode
         ELSE /\ sourceCode' = GitSourceAction(props)
              /\ pc' = "sourceStage"
              /\ UNCHANGED thrown
    /\ UNCHANGED <<props, env, buildNo, pipeline, children, artifacts,
                   mlPipelineRole, deployRole, approval, built, exec>>

\* lines 76-79: the else branch, the repository
DeclareSourceRepo ==
    /\ pc = "source"
    /\ props.repoType # "git"
    /\ children' = Append(children, sourceRepo)
    /\ pc' = "sourceAction"
    /\ UNCHANGED <<props, env, buildNo, pipeline, artifacts, sourceCode,
                   mlPipelineRole, deployRole, approval, thrown, built, exec>>

\* lines 80-86: the else branch, the source action
CodeCommitSource ==
    /\ pc = "sourceAction"
    /\ sourceCode' = CodeCommitSourceAction(sourceRepo)
    /\ pc' = "sourceStage"
    /\ UNCHANGED <<props, env, buildNo, pipeline, children, artifacts,
                   mlPipelineRole, deployRole, approval, thrown, built, exec>>

\* lines 88-99
SourceStage ==
    /\ pc = "sourceStage"
    /\ pipeline' = addStage(pipeline, "Source", <<sourceCode, sourceData(props)>>)
    /\ pc' = "ci"
    /\ UNCHANGED <<props, env, buildNo, children, artifacts, sourceCode,
                   mlPipelineRole, deployRole, approval, thrown, built, exec>>

\* lines 101-121
CIStage ==
    /\ pc = "ci"
    /\ children' = Append(children, buildProject)
    /\ pipeline' = addStage(pipeline, "CI", <<build>>)
    /\ pc' = "mlRole"
    /\ UNCHANGED <<props, env, buildNo, artifacts, sourceCode,
                   mlPipelineRole, deployRole, approval, thrown, built, exec>>

\* lines 124-126
CreateMLPipelineRole ==
    /\ pc = "mlRole"
    /\ children' = Append(children, Construct("MLPipelineRole", "iam.Role",
                              [assumedBy |-> S("codebuild.amazonaws.com")]))
    /\ mlPipelineRole' = NewRole
    /\ pc' = "mlS3"
    /\ UNCHANGED <<props, env, buildNo, pipeline, artifacts, sourceCode,
                   deployRole, approval, thrown, built, exec>>

\* lines 128-134: props.sageMakerArtifactBucket.bucketArn is read
GrantArtifactBucket ==
    /\ pc = "mlS3"
    /\ IF props.sageMakerArtifactBucket = Undefined
         THEN /\ Throw("TypeError")
              /\ UNCHANGED mlPipelineRole
         ELSE /\ mlPipelineRole' = addToPolicy(mlPipelineRole, ArtifactBucketStatement(props))
              /\ pc' = "mlSageMaker"
              /\ UNCHANGED thrown
    /\ UNCHANGED <<props, env, buildNo, pipeline, children, artifacts, sourceCode,
                   deployRole, approval, built, exec>>

\* lines 136-158
GrantSageMakerPipeline ==
    /\ pc = "mlSageMaker"
    /\ mlPipelineRole' = addToPolicy(mlPipelineRole, SageMakerPipelineStatement(props, env))
    /\ pc' = "mlPassRole"
    /\ UNCHANGED <<props, env, buildNo, pipeline, children, artifacts, sourceCode,
                   deployRole, approval, thrown, built, exec>>

\* lines 160-166: props.sageMakerExecutionRole.roleArn is read
GrantPassRole ==
    /\ pc = "mlPassRole"
    /\ IF props.sageMakerExecutionRole = Undefined
         THEN /\ Throw("TypeError")
              /\ UNCHANGED mlPipelineRole
         ELSE /\ mlPipelineRole' = addToPolicy(mlPipelineRole, PassRoleStatement(props, env))
              /\ pc' = "mlStage"
              /\ UNCHANGED thrown
    /\ UNCHANGED <<props, env, buildNo, pipeline, children, artifacts, sourceCode,
                   deployRole, approval, built, exec>>

\* lines 168-200
MLPipelineStage ==
    /\ pc = "mlStage"
    /\ children' = Append(children, mlPipelineProject)
    /\ pipeline' = addStage(pipeline, "MLPipeline", <<mlPipelie(props, env)>>)
    /\ pc' = "approval"
    /\ UNCHANGED <<props, env, buildNo, artifacts, sourceCode,
                   mlPipelineRole, deployRole, approval, thrown, built, exec>>

\* lines 202-215
ApprovalGate ==
    /\ pc = "approval"
    /\ children' = Append(children, deploymentApprovalTopic)
    /\ approval' = manualApprovalAction(props, env)
    /\ pc' = "deployRole"
    /\ UNCHANGED <<props, env, buildNo, pipeline, artifacts, sourceCode,
                   mlPipelineRole, deployRole, thrown, built, exec>>

\* lines 217-304
CreateDeployRole ==
    /\ pc = "deployRole"
    /\ children' = Append(children, Construct("DeployRole", "iam.Role",
                              [assumedBy |-> S("codebuild.amazonaws.com")]))
    /\ deployRole' =
         addToPolicy(addToPolicy(addToPolicy(addToPolicy(addToPolicy(NewRole,
            LambdaStatement(props, env)),
            EndpointStatement),
            IamStatement(props, env)),
            CloudFormationStatement(props, env)),
            StagingBucketStatement)
    /\ pc' = "deployStage"
    /\ UNCHANGED <<props, env, buildNo, pipeline, artifacts, sourceCode,
                   mlPipelineRole, approval, thrown, built, exec>>

\* lines 306-327
DeployStage ==
    /\ pc = "deployStage"
    /\ children' = Append(children, deployProject)
    /\ pipeline' = addStage(pipeline, "Deploy", <<approval, deploy>>)
    /\ pc' = "returned"
    /\ UNCHANGED <<props, env, buildNo, artifacts, sourceCode,
                   mlPipelineRole, deployRole, approval, thrown, built, exec>>

-----------------------------------------------------------------------------
(* The caller of the constructor *)

\* what the constructor call left in the construct tree
Graph ==
    [stages |-> pipeline, children |-> children, artifacts |-> artifacts,
     mlPipelineRole |-> mlPipelineRole, deployRole |-> deployRole,
     thrown |-> thrown]

\* `new CodePipelineConstruct(scope, id, props)` is over: returned or threw
Finish ==
    /\ pc \in {"returned", "thrown"}
    /\ built' = Append(built, Graph)
    /\ pc' = "idle"
    /\ UNCHANGED <<props, env, buildNo, pipeline, children, artifacts, sourceCode,
                   mlPipelineRole, deployRole, approval, thrown, exec>>

\* `new CodePipelineConstruct(scope, id2, props)` with the same props
Rebuild ==
    /\ pc = "idle"
    /\ exec.status = "idle"
    /\ buildNo < NumBuilds
    /\ buildNo' = buildNo + 1
    /\ pc' = "enter"
    /\ UNCHANGED <<props, env, pipeline, children, artifacts, sourceCode,
                   mlPipelineRole, deployRole, approval, thrown, built, exec>>

-----------------------------------------------------------------------------
(* One execution of the built pipeline: stages in declaration order, the   *)
(* actions of a stage in run-order, a manual approval either approved      *)
(* (succeeded) or rejected (failed).                                       *)

\* an action without runOrder runs with run-order 1
EffectiveRunOrder(a) == IF a.runOrder = <<>> THEN 1 ELSE a.runOrder[1]

StageActions(i) == pipeline[i].actions

ActionNames(i) == { StageActions(i)[k].actionName : k \in 1..Len(StageActions(i)) }

ActionNamed(i, n) ==
    CHOOSE a \in { StageActions(i)[k] : k \in 1..Len(StageActions(i)) } : a.actionName = n

EnterStage(i) ==
    [status |-> "running", stage |-> i, actions |-> [n \in ActionNames(i) |-> "pending"]]

StartExecution ==
    /\ pc = "idle"
    /\ thrown = "none"
    /\ exec.status = "idle"
    /\ Len(pipeline) > 0
    /\ exec' = EnterStage(1)
    /\ UNCHANGED <<props, env, pc, buildNo, pipeline, children, artifacts, sourceCode,
                   mlPipelineRole, deployRole, approval, thrown, built>>

StartAction ==
    /\ exec.status = "running"
    /\ \E n \in DOMAIN exec.actions :
         /\ exec.actions[n] = "pending"
         /\ \A m \in DOMAIN exec.actions :
              EffectiveRunOrder(ActionNamed(exec.stage, m))
                  < EffectiveRunOrder(ActionNamed(exec.stage, n))
                => exec.actions[m] = "succeeded"
         /\ exec' = [exec EXCEPT !.actions[n] = "running"]
    /\ UNCHANGED <<props, env, pc, buildNo, pipeline, children, artifacts, sourceCode,
                   mlPipelineRole, deployRole, approval, thrown, built>>

\* the action succeeds; for the manual approval: it is approved
SucceedAction ==
    /\ exec.status = "running"
    /\ \E n \in DOMAIN exec.actions :
         /\ exec.actions[n] = "running"
         /\ exec' = [exec EXCEPT !.actions[n] = "succeeded"]
    /\ UNCHANGED <<props, env, pc, buildNo, pipeline, children, artifacts, sourceCode,
                   mlPipelineRole, deployRole, approval, thrown, built>>

\* the action fails; for the manual approval: it is rejected
FailAction ==
    /\ exec.status = "running"
    /\ \E n \in DOMAIN exec.actions :
         /\ exec.actions[n] = "running"
         /\ exec' = [exec EXCEPT !.actions[n] = "failed", !.status = "failed"]
    /\ UNCHANGED <<props, env, pc, buildNo, pipeline, children, artifacts, sourceCode,
                   mlPipelineRole, deployRole, approval, thrown, built>>

NextStage ==
    /\ exec.status = "running"
    /\ \A n \in DOMAIN exec.actions : exec.actions[n] = "succeeded"
    /\ exec' = IF exec.stage < Len(pipeline)
                 THEN EnterStage(exec.stage + 1)
                 ELSE [exec EXCEPT !.status = "succeeded"]
    /\ UNCHANGED <<props, env, pc, buildNo, pipeline, children, artifacts, sourceCode,
                   mlPipelineRole, deployRole, approval, thrown, built>>

-----------------------------------------------------------------------------

Next ==
    \/ Enter
    \/ GitSource
    \/ DeclareSourceRepo
    \/ CodeCommitSource
    \/ SourceStage
    \/ CIStage
    \/ CreateMLPipelineRole
    \/ GrantArtifactBucket
    \/ GrantSageMakerPipeline
    \/ GrantPassRole
    \/ MLPipelineStage
    \/ ApprovalGate
    \/ CreateDeployRole
    \/ DeployStage
    \/ Finish
    \/ Rebuild
    \/ StartExecution
    \/ StartAction
    \/ SucceedAction
    \/ FailAction
    \/ NextStage

Spec == Init /\ [][Next]_vars

-----------------------------------------------------------------------------
(* Vocabulary of the properties *)

StageNames(p) == [i \in 1..Len(p) |-> p[i].stageName]

ActionsOf(p, i) == { p[i].actions[k] : k \in 1..Len(p[i].actions) }

Range(s) == { s[k] : k \in 1..Len(s) }

\* the artifacts an action reads: primary input and extra inputs
Consumed(a) == Range(a.input) \cup Range(a.extraInputs)

\* the artifacts some action of a stage before stage n writes
ProducedBefore(p, n) ==
    UNION { Range(b.outputs) : b \in UNION { ActionsOf(p, m) : m \in 1..(n - 1) } }

Repositories(c) == { i \in 1..Len(c) : c[i].type = "codecommit.Repository" }

\* the constructor call is over
Over == pc \in {"returned", "thrown", "idle"}

\* every pipeline there is: the one under construction and the finished ones
Pipelines == {pipeline} \cup { built[k].stages : k \in 1..Len(built) }

MLPipelineRoles == {mlPipelineRole} \cup { built[k].mlPipelineRole : k \in 1..Len(built) }

DeployRoles == {deployRole} \cup { built[k].deployRole : k \in 1..Len(built) }

FunctionActions == {"lambda:*Function*"}
EndpointActions == {"sagemaker:*Endpoint*"}
RolePolicyActions == {"iam:*Role", "iam:*Policy*", "iam:*RolePolicy"}
StackActions == {"cloudformation:DescribeStacks", "cloudformation:CreateChangeSet",
                 "cloudformation:DescribeChangeSet", "cloudformation:ExecuteChangeSet",
                 "cloudformation:DescribeStackEvents", "cloudformation:DeleteChangeSet",
                 "cloudformation:GetTemplate"}
StorageActions == {"s3:*Object", "s3:ListBucket", "s3:GetBucketLocation"}

-----------------------------------------------------------------------------
(* C1 *)

\* C1, as the claim states it: for every valid configuration the built
\* pipeline has exactly 4 stages named Source, CI, ModelPipeline, Deploy,
\* in this order.
C1_StagesAsClaimed ==
    (ValidProps(props) /\ pc \in {"returned", "idle"})
        => StageNames(pipeline) = <<"Source", "CI", "ModelPipeline", "Deploy">>

\* C1, amended: for every valid configuration the constructor returns
\* without an exception and the built pipeline has exactly 4 stages named
\* Source, CI, MLPipeline, Deploy, in this order.
C1_FourStages ==
    ValidProps(props) =>
        /\ thrown = "none"
        /\ pc \in {"returned", "idle"}
             => StageNames(pipeline) = <<"Source", "CI", "MLPipeline", "Deploy">>
        /\ \A k \in 1..Len(built) :
             StageNames(built[k].stages) = <<"Source", "CI", "MLPipeline", "Deploy">>

C1_Witness ==
    /\ ValidProps(props)
    /\ pc = "returned"
    /\ Len(pipeline) = 4

-----------------------------------------------------------------------------
(* C2 *)

\* C2: in the Deploy stage the approval action's run-order is strictly less
\* than the deploy action's run-order, and in an execution that runs stages
\* in declaration order and actions in run-order the Deploy action has not
\* started unless the Approval action has succeeded (was approved).
C2_ApprovalBeforeDeploy ==
    /\ \A p \in Pipelines : \A i \in 1..Len(p) :
         p[i].stageName = "Deploy" =>
           /\ \E a \in ActionsOf(p, i) : a.kind = "ManualApproval"
           /\ \E d \in ActionsOf(p, i) : d.actionName = "Deploy"
           /\ \A a, d \in ActionsOf(p, i) :
                (a.kind = "ManualApproval" /\ d.actionName = "Deploy")
                  => /\ a.runOrder # <<>>
                     /\ d.runOrder # <<>>
                     /\ a.runOrder[1] < d.runOrder[1]
    /\ ("Deploy" \in DOMAIN exec.actions /\ exec.actions["Deploy"] # "pending")
         => /\ "Approval" \in DOMAIN exec.actions
            /\ exec.actions["Approval"] = "succeeded"

C2_Witness ==
    /\ "Deploy" \in DOMAIN exec.actions
    /\ exec.actions["Deploy"] = "running"
    /\ exec.actions["Approval"] = "succeeded"

-----------------------------------------------------------------------------
(* C3 *)

\* C3: every artifact an action of stage N takes as primary or extra input
\* is an output of an action of a stage before N: no action reads an
\* artifact of its own stage, of a later stage, or of no action at all.
C3_NoForwardReference ==
    \A p \in Pipelines : \A n \in 1..Len(p) : \A a \in ActionsOf(p, n) :
        /\ Consumed(a) \subseteq ProducedBefore(p, n)
        /\ Consumed(a) \subseteq
             {sourceCodeOutput, sourceDataOutput, buildOutput, pipelineOutput}

C3_Witness ==
    /\ pc = "returned"
    /\ Len(pipeline) = 4
    /\ \E a \in ActionsOf(pipeline, 4) :
         Consumed(a) = {buildOutput, pipelineOutput}

-----------------------------------------------------------------------------
(* C4 *)

\* C4, as the claim states it: with a repoType other than "git" and
\* "codecommit" the build fails with ConfigurationError; no source action is
\* selected, no managed repository is declared and no stage is added.
C4_RejectsUnknownRepoType ==
    props.repoType \notin {"git", "codecommit"} =>
        /\ sourceCode = NoAction
        /\ Repositories(children) = {}
        /\ pipeline = <<>>
        /\ pc # "returned"
        /\ pc = "thrown" => thrown = "ConfigurationError"

-----------------------------------------------------------------------------
(* C5 *)

\* C5, as the claim states it: when the project name, the artifact bucket or
\* the execution role is absent, the build fails with ConfigurationError at
\* its start, before any stage, artifact, role or other resource is created.
C5_ValidatesRequiredFields ==
    (\/ props.projectName = Undefined
     \/ props.sageMakerArtifactBucket = Undefined
     \/ props.sageMakerExecutionRole = Undefined) =>
        /\ pipeline = <<>>
        /\ children = <<>>
        /\ artifacts = <<>>
        /\ pc # "returned"
        /\ pc = "thrown" => thrown = "ConfigurationError"

-----------------------------------------------------------------------------
(* C6 *)

-----------------------------------------------------------------------------
(* C7 *)

\* C7: with repoType "codecommit" the built graph holds exactly one
\* managed-repository declaration, the declaration is made before the source
\* action is created, and the source action references that repository on
\* branch "main".
C7_CodeCommitSource ==
    props.repoType = "codecommit" =>
        /\ Cardinality(Repositories(children)) <= 1
        /\ pc \notin {"enter", "source", "sourceAction"} => sourceCode # NoAction
        /\ sourceCode # NoAction =>
             /\ Cardinality(Repositories(children)) = 1
             /\ \A i \in Repositories(children) :
                  sourceCode.config.repository = children[i].id
        /\ \A a \in ({sourceCode} \ {NoAction})
                      \cup { p[1].actions[1] : p \in { q \in Pipelines : Len(q) > 0 } } :
             /\ a.kind = "CodeCommitSource"
             /\ a.config.branch = <<"main">>
        /\ \A k \in 1..Len(built) :
             /\ Cardinality(Repositories(built[k].children)) = 1
             /\ \A i \in Repositories(built[k].children) :
                  built[k].stages[1].actions[1].config.repository = built[k].children[i].id

C7_Witness ==
    /\ props.repoType = "codecommit"
    /\ pc = "returned"
    /\ Cardinality(Repositories(children)) = 1
    /\ pipeline[1].actions[1].kind = "CodeCommitSource"

-----------------------------------------------------------------------------
(* C8 *)

\* C8: the ModelPipeline identity's statement for the pipeline-lifecycle
\* action group has no bare "*" resource, and every resource string of it
\* contains the configuration's projectName.
C8_PipelineStatementScoped ==
    /\ \A r \in MLPipelineRoles : \A i \in 1..Len(r) :
         r[i].actions \cap PipelineLifecycleActions # {} =>
           /\ r[i].actions = PipelineLifecycleActions
           /\ Len(r[i].resources) > 0
           /\ \A j \in 1..Len(r[i].resources) :
                /\ r[i].resources[j] # <<"*">>
                /\ props.projectName # Undefined
                     => Contains(r[i].resources[j], props.projectName)
    /\ pc \in {"mlPassRole", "mlStage", "approval", "deployRole", "deployStage", "returned"}
         => \E i \in 1..Len(mlPipelineRole) :
              mlPipelineRole[i].actions = PipelineLifecycleActions

C8_Witness ==
    /\ props.projectName = <<"ml", "-", "ops">>
    /\ pc = "returned"
    /\ \E i \in 1..Len(mlPipelineRole) :
         /\ mlPipelineRole[i].actions = PipelineLifecycleActions
         /\ Len(mlPipelineRole[i].resources) = 2

-----------------------------------------------------------------------------
(* C9 *)

\* C9: two constructor calls with the same configuration leave structurally
\* equal graphs: the same stages, actions, run-orders, environment
\* variables, artifacts, wiring and policy statements; the second call does
\* not depend on what the first left behind.
C9_RebuildEqual ==
    \A i, j \in 1..Len(built) : built[i] = built[j]

C9_Witness ==
    /\ Len(built) >= 2
    /\ built[2].thrown = "none"
    /\ Len(built[2].stages) = 4

-----------------------------------------------------------------------------
(* C10 *)

\* C10: in the Deploy identity the statements for deployment functions,
\* model-serving endpoints and roles/policies carry the called-via
\* condition, the stack-lifecycle and staging-bucket statements carry none;
\* over both identities only the endpoint statement has a bare "*"
\* resource; the function and role/policy statements' resources contain
\* "Deployment-<projectName>".
C10_DeployStatements ==
    /\ \A r \in DeployRoles : \A i \in 1..Len(r) :
         /\ r[i].actions \in {FunctionActions, EndpointActions, RolePolicyActions,
                              StackActions, StorageActions}
         /\ r[i].actions \in {FunctionActions, EndpointActions, RolePolicyActions}
              => r[i].conditions = CalledVia
         /\ r[i].actions \in {StackActions, StorageActions}
              => r[i].conditions = <<>>
         /\ r[i].actions \in {FunctionActions, RolePolicyActions}
              => \A j \in 1..Len(r[i].resources) :
                   Contains(r[i].resources[j],
                            <<"Deployment-">> \o ToStr(props.projectName))
    /\ \A r \in DeployRoles \cup MLPipelineRoles : \A i \in 1..Len(r) :
         (\E j \in 1..Len(r[i].resources) : r[i].resources[j] = <<"*">>)
            => r[i].actions = EndpointActions
    /\ pc \in {"deployStage", "returned"} =>
         \A g \in {FunctionActions, EndpointActions, RolePolicyActions,
                   StackActions, StorageActions} :
            Cardinality({ i \in 1..Len(deployRole) : deployRole[i].actions = g }) = 1

C10_Witness ==
    /\ pc = "returned"
    /\ props.projectName = <<"*">>
    /\ Len(deployRole) = 5
    /\ Len(mlPipelineRole) = 3

====
